---------------------------- MODULE Spec2Model ----------------------------
(***************************************************************************)
(* Model of the asset-correlation dashboard (src/app.py).                  *)
(*                                                                         *)
(* The script is re-executed from top to bottom on every interaction       *)
(* (a "run").  A run reads the credential and the rolling window, calls    *)
(* the memoized collector fetch_all_data(TICKERS, API_KEY) and resolves    *)
(* the status element.  The collector's loop is modelled step by step:     *)
(* one action issues the GET of a ticker, one receives its outcome, one    *)
(* is the blocking sleep.  What requests.get / raise_for_status / json()   *)
(* produce is the environment's input (the HTTP client is a collaborator,  *)
(* as it is under a test double).                                          *)
(*                                                                         *)
(* Specification Spec is the dashboard with its cache and collector; a    *)
(* run that gets a table that is not empty goes on, in the same step, to   *)
(* the returns, the correlation matrix and the ranked pairs (lines 74-98). *)
(* Specification SpecRank applies the pair ranker (lines 89-98) to         *)
(* correlation matrices drawn from bounded families, specification         *)
(* SpecCorr the return and correlation engine (lines 74-75) to price       *)
(* tables drawn from bounded families.                                     *)
(***************************************************************************)
EXTENDS Integers, Sequences, FiniteSets, TLC

VARIABLES
    \* ---- process-wide state
    cache,           \* st.cache_data store of fetch_all_data: key -> result
    \* ---- the current run of the script
    pc,              \* position of the run
    API_KEY,         \* line 17
    rolling_window,  \* line 19
    status_text,     \* line 62: what the status element shows
    all_prices,      \* line 69
    \* ---- locals of fetch_all_data in the current run
    price_data,      \* line 36: ticker -> series
    idx,             \* position of the for loop of line 37 in tickers
    warned,          \* tickers for which st.warning was emitted (line 50)
    \* ---- observation of the current run (not program state)
    requested,       \* api tickers for which a GET was issued, in order
    responses,       \* outcome of each GET, in order
    slept,           \* total time spent in time.sleep
    invoked,         \* TRUE once line 69 was executed in this run
    seenBefore,      \* TRUE if an earlier run called line 69 with this key
    \* ---- observation across runs
    firstCall,       \* key -> how the first call of line 69 with it ended
    runs,            \* number of runs started
    \* ---- the pair ranker (SpecRank)
    correlation_matrix, \* line 75: <<row, col>> -> value
    tie,                \* order the sort of line 89 left equal values in
    rpc,                \* position in lines 89-98
    corr_pairs,         \* lines 89-90
    most,               \* line 95
    least,              \* line 98
    \* ---- the return and correlation engine (SpecCorr)
    daily_returns,      \* line 74
    fill_method         \* what pct_change() of the installed pandas fills with

fetchVars == <<cache, pc, API_KEY, rolling_window, status_text, all_prices,
               price_data, idx, warned, requested, responses, slept,
               invoked, seenBefore, firstCall, runs>>
rankVars == <<correlation_matrix, tie, rpc, corr_pairs, most, least>>
engineVars == <<daily_returns, fill_method>>
vars == <<fetchVars, rankVars, engineVars>>

-----------------------------------------------------------------------------
(* Bounds *)

\* the batch is the last NumTickers tickers of TICKERS
NumTickers == 3
\* number of script runs explored
MaxRuns == 3
\* size of the small correlation matrices given to the ranker
RankTickers == 3
\* number of calendar dates of the small price tables given to the engine
MaxDates == 4

-----------------------------------------------------------------------------
(* Inputs *)

\* line 18
TICKERS == <<"SPY", "IWM", "VEA", "VWO", "AGG", "GOVT", "GLD", "DBC", "VNQ", "BTC-USD">>

\* the tickers argument of fetch_all_data in the model
Batch == SubSeq(TICKERS, Len(TICKERS) - NumTickers + 1, Len(TICKERS))

\* line 17: the text input; "" is the missing credential
Keys == {"", "k1", "k2"}

\* lines 19-25: two of the slider's positions
Windows == {30, 90}

\* bodies of a well-formed series (data['results'] with 't' and 'c')
Payloads == {"s1", "s2"}

\* the closing prices 'c' of such a body, on the dates 't' 1, 2, ...
Records == [s1 |-> <<1, 2>>, s2 |-> <<2, 1, 1>>]

\* lines 46-48: the series of a body, date -> closing price (no record, no
\* price)
Series(results) ==
    IF results \in DOMAIN Records THEN Records[results] ELSE <<>>

\* What one GET can produce at lines 42-44.
\*   ConnectionError : requests.get raises (line 42).  The URL of line 41
\*                     has no scheme ("https.api..."), so the real client
\*                     raises MissingSchema, a RequestException, here
\*   HTTPError       : raise_for_status raises on a non-2xx status (line 43)
\*   InvalidJSON     : response.json() raises on a body that is not JSON
\*                     (line 44): requests.exceptions.JSONDecodeError,
\*                     a RequestException (requests 2.27 and later)
\*   json            : a decoded body; results is "missing" when the body
\*                     has no usable 'results'/'t'/'c'
Responses ==
    {[kind |-> "ConnectionError"], [kind |-> "HTTPError"], [kind |-> "InvalidJSON"]}
    \cup {[kind |-> "json", resultsCount |-> 0, results |-> "missing"]}
    \cup {[kind |-> "json", resultsCount |-> 1, results |-> r] :
            r \in Payloads \cup {"missing"}}

-----------------------------------------------------------------------------
(* Values *)

None == [tag |-> "None"]
DataFrame(pd) == [tag |-> "DataFrame", columns |-> pd]
Unset == [tag |-> "unset"]
Raised == [tag |-> "raised"]
EmptyDict == [t \in {} |-> "s1"]

\* DataFrame.empty (line 71)
IsEmpty(df) == DOMAIN df.columns = {}

\* line 40
ApiTicker(ticker) == IF ticker = "BTC-USD" THEN "X:BTCUSD" ELSE ticker

\* line 64: truthiness of the credential
TruthyAlways(key) == TRUE
Truthy(key) == key # ""

\* line 52: time.sleep(13); the first definition is the same call with the
\* argument read as milliseconds
SleepSecondsAsMillis == 13 \div 1000
SleepSeconds == 13

-----------------------------------------------------------------------------
(* fetch_all_data, lines 39-58: what the try block does with one response *)

\* the exception lines 42-48 raise on this response, "" if none
ExceptionOf(r) ==
    CASE r.kind = "ConnectionError" -> "requests.ConnectionError"
      [] r.kind = "HTTPError" -> "requests.HTTPError"
      [] r.kind = "InvalidJSON" -> "requests.JSONDecodeError"
      [] r.kind = "json" ->
            IF r.resultsCount > 0 /\ r.results = "missing" THEN "KeyError" ELSE ""

\* line 54: except requests.exceptions.RequestException
IsRequestException(e) ==
    e \in {"requests.ConnectionError", "requests.HTTPError", "requests.JSONDecodeError"}

\* line 45: data.get("resultsCount", 0) > 0
HasResultsAlways(r) == TRUE
HasResults(r) == r.resultsCount > 0

\* the branch taken for a response:
\*   "store"  lines 46-48    "warn"  line 50
\*   "none"   lines 54-58    "raise" the exception leaves fetch_all_data
OutcomeNoAbort(r) ==
    LET e == ExceptionOf(r) IN
    IF e # "" THEN "warn"
    ELSE IF HasResults(r) THEN "store" ELSE "warn"
Outcome(r) ==
    LET e == ExceptionOf(r) IN
    IF e # "" THEN (IF IsRequestException(e) THEN "none" ELSE "raise")
    ELSE IF HasResults(r) THEN "store" ELSE "warn"

\* lines 71-101: the status element after line 69 returned `result`
MainStatus(result, key) ==
    IF result # None /\ ~IsEmpty(result) THEN "success"
    ELSE IF result = None /\ Truthy(key) THEN "error"
    ELSE "fetching"

\* line 28: st.cache_data stores the value the function returned
CacheStoreTablesOnly(c, key, result) ==
    IF result = None THEN c
    ELSE [k \in DOMAIN c \cup {key} |-> IF k = key THEN result ELSE c[k]]
CacheStore(c, key, result) ==
    [k \in DOMAIN c \cup {key} |-> IF k = key THEN result ELSE c[k]]

\* line 28: a key is a hit when a value is stored for it
CacheHit(c, key) == key \in DOMAIN c

\* first outcome recorded for a key
Note(fc, key, how) ==
    IF key \in DOMAIN fc THEN fc
    ELSE [k \in DOMAIN fc \cup {key} |-> IF k = key THEN how ELSE fc[k]]

-----------------------------------------------------------------------------
(* The pair ranker, lines 89-98 *)

\* Correlations are in hundredths: One is the 1.0 of line 90.  NaN stands for
\* not-a-number: it is no number of [-One, One], sort_values puts it last,
\* `!= 1.0` is true of it and drop_duplicates takes all NaN for one value.
One == 100
NaN == One + 1

\* lines 95, 98: head(5), tail(5)
TopN == 5

Size(M) == Len(M)

\* DataFrame.unstack(): one entry per (column a, row b), column by column
Unstack(M) ==
    LET n == Size(M) IN
    [k \in 1..(n * n) |->
        LET c == ((k - 1) \div n) + 1
            r == ((k - 1) % n) + 1
        IN [a |-> c, b |-> r, v |-> M[r][c]]]

\* the entries of s of value x, in the order of s
Bucket(s, x) == LET Is(e) == e.v = x IN SelectSeq(s, Is)

MaxValue(s) == CHOOSE x \in {s[k].v : k \in 1..Len(s)} :
                  \A k \in 1..Len(s) : s[k].v <= x
MinValue(s) == CHOOSE x \in {s[k].v : k \in 1..Len(s)} :
                  \A k \in 1..Len(s) : s[k].v >= x

RECURSIVE SortNumbers(_, _, _)
\* the numbers of s by value, descending or ascending.  The sort (numpy
\* argsort, kind 'quicksort') is not stable: t[x] is the order it leaves the
\* entries of value x in
SortNumbers(s, descending, t) ==
    IF s = <<>> THEN <<>>
    ELSE LET x == IF descending THEN MaxValue(s) ELSE MinValue(s)
             IsNot(e) == e.v # x
         IN t[x] \o SortNumbers(SelectSeq(s, IsNot), descending, t)

\* Series.sort_values(ascending=False), line 89: numbers in descending order,
\* then the NaN entries in their original order (na_position='last')
SortValuesAscending(s, t) ==
    LET Num(e) == e.v # NaN
        Nan(e) == e.v = NaN
    IN SortNumbers(SelectSeq(s, Num), FALSE, t) \o SelectSeq(s, Nan)
SortValues(s, t) ==
    LET Num(e) == e.v # NaN
        Nan(e) == e.v = NaN
    IN SortNumbers(SelectSeq(s, Num), TRUE, t) \o SelectSeq(s, Nan)

\* corr_pairs[corr_pairs != 1.0], line 90
NotOne(s) ==
    LET Keep(e) == e.v # One IN SelectSeq(s, Keep)

RECURSIVE DropDuplicates(_)
\* Series.drop_duplicates(), line 90: the first entry of every value is kept
DropDuplicates(s) ==
    IF s = <<>> THEN <<>>
    ELSE LET h == Head(s)
             Other(e) == e.v # h.v
         IN <<h>> \o DropDuplicates(SelectSeq(Tail(s), Other))

\* Series.head(k), Series.tail(k)
HeadN(s, k) == SubSeq(s, 1, IF Len(s) < k THEN Len(s) ELSE k)
TailNShifted(s, k) ==
    SubSeq(s, (IF Len(s) < k THEN 1 ELSE Len(s) - k), Len(s) - 1)
TailN(s, k) == SubSeq(s, (IF Len(s) < k THEN 1 ELSE Len(s) - k + 1), Len(s))

\* lines 89-90
RankedPairs(M, t) == DropDuplicates(NotOne(SortValues(Unstack(M), t)))

\* the numbers among the values of s
NumbersOf(s) == {s[k].v : k \in 1..Len(s)} \ {NaN}

\* bucket b with its k-th entry moved to the front
Front(b, k) == <<b[k]>> \o SubSeq(b, 1, k - 1) \o SubSeq(b, k + 1, Len(b))

\* The orders the sort of line 89 can leave a bucket of equal values in.
\* Which one it is depends on the numpy build (introsort, vectorised sorts)
\* and on the position of the entries; any entry of the bucket can come
\* first.  Line 90 removes the entries of value One and keeps only the
\* first entry of every other value, so one order per first entry stands
\* for all the orders of the bucket.
BucketOrders(b) ==
    IF b[1].v = One THEN {b} ELSE {Front(b, k) : k \in 1..Len(b)}

RECURSIVE TiesOver(_, _)
\* one order for the bucket of every value of V
TiesOver(s, V) ==
    IF V = {} THEN {[x \in {} |-> <<>>]}
    ELSE LET x == CHOOSE y \in V : TRUE IN
         {[y \in DOMAIN f \cup {x} |-> IF y = x THEN o ELSE f[y]] :
             f \in TiesOver(s, V \ {x}), o \in BucketOrders(Bucket(s, x))}

\* what the sort of line 89 can do with the equal values of s
Ties(s) == TiesOver(s, NumbersOf(s))

\* no sort has run
NoTie == [x \in {} |-> <<>>]

-----------------------------------------------------------------------------
(* The return and correlation engine, lines 74-75 *)

\* Closing prices are powers of two, so that every day-over-day change
\* price[t]/price[t-1] - 1 is a whole number of 1/ReturnScale (and is exact
\* in floating point too).  A price a ticker does not have on a date of the
\* table is NaN, as is a return that is not defined.
Prices == {1, 2}
ReturnScale == 2

\* the columns of the table, in the order the collector inserted them
Columns(df) ==
    LET Has(t) == t \in DOMAIN df.columns IN SelectSeq(TICKERS, Has)

\* lines 47-48, 59: pd.DataFrame(price_data) puts the series, each indexed
\* by its own dates, on the sorted union of their dates
DateIndex(df) ==
    LET D == UNION {DOMAIN df.columns[t] : t \in DOMAIN df.columns}
        last == CHOOSE d \in D : \A e \in D : e <= d
        InD(d) == d \in D
    IN SelectSeq([d \in 1..last |-> d], InD)

\* the rows of the table: the date and one value per column
PriceRows(df) ==
    LET cols == Columns(df)
        dates == DateIndex(df)
    IN [k \in 1..Len(dates) |->
          [date |-> dates[k],
           v |-> [c \in 1..Len(cols) |->
                    IF dates[k] \in DOMAIN df.columns[cols[c]]
                    THEN df.columns[cols[c]][dates[k]] ELSE NaN]]]

RECURSIVE LastValid(_, _, _)
\* fillna(method='pad'): the last price of column c at or before row k
LastValid(rows, k, c) ==
    IF rows[k].v[c] # NaN THEN rows[k].v[c]
    ELSE IF k = 1 THEN NaN
    ELSE LastValid(rows, k - 1, c)

\* the table pct_change() divides: forward-filled by pandas before 3.0
\* (fill_method='pad' is the default), as it is from pandas 3.0 on
Filled(rows, fm) ==
    IF fm = "pad"
    THEN [k \in 1..Len(rows) |->
            [date |-> rows[k].date,
             v |-> [c \in DOMAIN rows[k].v |-> LastValid(rows, k, c)]]]
    ELSE rows

\* DataFrame.pct_change(), line 74: data / data.shift(1) - 1
PctChange(rows, fm) ==
    LET data == Filled(rows, fm) IN
    [k \in 1..Len(rows) |->
        [date |-> rows[k].date,
         v |-> [c \in DOMAIN rows[k].v |->
                  IF k = 1 THEN NaN
                  ELSE IF data[k].v[c] = NaN \/ data[k - 1].v[c] = NaN THEN NaN
                  ELSE ((data[k].v[c] - data[k - 1].v[c]) * ReturnScale)
                           \div data[k - 1].v[c]]]]

\* DataFrame.dropna(), line 74: the rows without any NaN
DropNa(rows) ==
    LET Full(row) == \A c \in DOMAIN row.v : row.v[c] # NaN
    IN SelectSeq(rows, Full)

\* line 74
DailyReturns(df, fm) == DropNa(PctChange(PriceRows(df), fm))

RECURSIVE SumTo(_, _)
\* f[1] + ... + f[n]
SumTo(f, n) == IF n = 0 THEN 0 ELSE f[n] + SumTo(f, n - 1)

\* floor(One * One * num / den) for 0 <= num <= den, den > 0
RatioPercent(num, den) ==
    One * (num \div den) + (One * (num % den)) \div den
Ratio(num, den) ==
    LET b == num % den
        c == (One * b) \div den
        b1 == (One * b) % den
    IN One * One * (num \div den) + One * c + (One * b1) \div den

\* floor(sqrt(q)) for 0 <= q <= One * One: the tens, then the units
Isqrt(q) ==
    LET t == CHOOSE k \in 0..10 :
                 (10 * k) * (10 * k) <= q /\ (10 * k + 10) * (10 * k + 10) > q
    IN IF q = One * One THEN One
       ELSE CHOOSE k \in (10 * t)..(10 * t + 9) :
                k * k <= q /\ (k + 1) * (k + 1) > q

\* Pearson correlation of two columns over the same rows, in hundredths
\* truncated toward zero (One only when it is exactly 1): covariance over
\* the root of the product of the variances, NaN when that product is 0
\* (fewer than two rows, or a column without variance)
CorrEntryZero(x, y) ==
    LET n == Len(x)
        sx == SumTo(x, n)
        sy == SumTo(y, n)
        Sxx == n * SumTo([k \in 1..n |-> x[k] * x[k]], n) - sx * sx
        Syy == n * SumTo([k \in 1..n |-> y[k] * y[k]], n) - sy * sy
        Sxy == n * SumTo([k \in 1..n |-> x[k] * y[k]], n) - sx * sy
    IN IF Sxx * Syy = 0 THEN 0
       ELSE IF Sxy >= 0 THEN Isqrt(Ratio(Sxy * Sxy, Sxx * Syy))
       ELSE 0 - Isqrt(Ratio(Sxy * Sxy, Sxx * Syy))
CorrEntry(x, y) ==
    LET n == Len(x)
        sx == SumTo(x, n)
        sy == SumTo(y, n)
        Sxx == n * SumTo([k \in 1..n |-> x[k] * x[k]], n) - sx * sx
        Syy == n * SumTo([k \in 1..n |-> y[k] * y[k]], n) - sy * sy
        Sxy == n * SumTo([k \in 1..n |-> x[k] * y[k]], n) - sx * sy
    IN IF Sxx * Syy = 0 THEN NaN
       ELSE IF Sxy >= 0 THEN Isqrt(Ratio(Sxy * Sxy, Sxx * Syy))
       ELSE 0 - Isqrt(Ratio(Sxy * Sxy, Sxx * Syy))

\* column c of the rows
Column(rows, c) == [k \in 1..Len(rows) |-> rows[k].v[c]]

\* DataFrame.corr(), line 75: one row and one column per column of the frame
Corr(rows, n) ==
    [r \in 1..n |-> [c \in 1..n |-> CorrEntry(Column(rows, r), Column(rows, c))]]

\* line 75
CorrelationMatrix(returns, window, n) == Corr(TailN(returns, window), n)

\* pct_change() forward-fills before pandas 3.0 and does not from 3.0 on
FillMethods == {"pad", "none"}

-----------------------------------------------------------------------------
(* Spec: the dashboard *)

RankIdle ==
    /\ correlation_matrix = <<>>
    /\ tie = NoTie
    /\ rpc = "off"
    /\ corr_pairs = <<>>
    /\ most = <<>>
    /\ least = <<>>

EngineIdle ==
    /\ daily_returns = <<>>
    /\ fill_method = "pad"

\* the process has started and the script has not run yet
FetchIdle ==
    /\ cache = EmptyDict
    /\ pc = "ready"
    /\ API_KEY = ""
    /\ rolling_window = 90
    /\ status_text = "empty"
    /\ all_prices = Unset
    /\ price_data = EmptyDict
    /\ idx = 1
    /\ warned = {}
    /\ requested = <<>>
    /\ responses = <<>>
    /\ slept = 0
    /\ invoked = FALSE
    /\ seenBefore = FALSE
    /\ firstCall = EmptyDict
    /\ runs = 0

\* the installed pandas is either
Init ==
    /\ FetchIdle
    /\ RankIdle
    /\ daily_returns = <<>>
    /\ fill_method \in FillMethods

\* lines 74-98 were not reached in this run
NoAnalysis ==
    /\ daily_returns' = <<>>
    /\ correlation_matrix' = <<>>
    /\ tie' = NoTie
    /\ rpc' = "off"
    /\ corr_pairs' = <<>>
    /\ most' = <<>>
    /\ least' = <<>>

\* lines 71-98: with a table that is not empty the run goes on to the
\* returns, the correlation matrix, the ranked pairs and the two lists
Analysis(result, window) ==
    IF result # None /\ ~IsEmpty(result)
    THEN LET returns == DailyReturns(result, fill_method)
             matrix == CorrelationMatrix(returns, window, Len(Columns(result)))
         IN /\ daily_returns' = returns
            /\ correlation_matrix' = matrix
            /\ \E t \in Ties(Unstack(matrix)) :
                  /\ tie' = t
                  /\ corr_pairs' = RankedPairs(matrix, t)
                  /\ most' = HeadN(corr_pairs', TopN)
                  /\ least' = TailN(corr_pairs', TopN)
            /\ rpc' = "shown"
    ELSE NoAnalysis

RunEnded == pc \in {"done", "crashed"}

\* lines 17-25, 62: a rerun starts; the locals of the previous run are gone
BeginRun(key, w) ==
    /\ pc = "ready" \/ RunEnded
    /\ runs < MaxRuns
    /\ runs' = runs + 1
    /\ API_KEY' = key
    /\ rolling_window' = w
    /\ price_data' = EmptyDict
    /\ idx' = 1
    /\ warned' = {}
    /\ requested' = <<>>
    /\ responses' = <<>>
    /\ slept' = 0
    /\ seenBefore' = (key \in DOMAIN firstCall)

\* lines 62-64, 102-103: no credential
RunWithoutKey ==
    \E w \in Windows, key \in Keys :
        /\ BeginRun(key, w)
        /\ ~Truthy(key)
        /\ status_text' = "guidance"
        /\ all_prices' = Unset
        /\ invoked' = FALSE
        /\ pc' = "done"
        /\ NoAnalysis
        /\ UNCHANGED <<cache, firstCall, fill_method>>

\* lines 62-72, 100-101: the cached value is returned without running the body
RunCacheHit ==
    \E w \in Windows, key \in Keys :
        /\ BeginRun(key, w)
        /\ Truthy(key)
        /\ CacheHit(cache, key)
        /\ invoked' = TRUE
        /\ all_prices' = cache[key]
        /\ status_text' = MainStatus(cache[key], key)
        /\ firstCall' = Note(firstCall, key, cache[key])
        /\ pc' = "done"
        /\ Analysis(cache[key], w)
        /\ UNCHANGED <<cache, fill_method>>

\* lines 62-69, 36-37: the body of fetch_all_data starts
RunCacheMiss ==
    \E w \in Windows, key \in Keys :
        /\ BeginRun(key, w)
        /\ Truthy(key)
        /\ ~CacheHit(cache, key)
        /\ invoked' = TRUE
        /\ status_text' = "fetching"
        /\ all_prices' = Unset
        /\ pc' = "loop"
        /\ NoAnalysis
        /\ UNCHANGED <<cache, firstCall, fill_method>>

\* lines 40-42 issued without waiting for the delay of line 52
RequestBeforeDelay ==
    /\ pc = "loop" \/ (pc = "sleep" /\ idx < Len(Batch))
    /\ idx' = (IF pc = "sleep" THEN idx + 1 ELSE idx)
    /\ requested' = Append(requested, ApiTicker(Batch[idx']))
    /\ pc' = "inflight"
    /\ UNCHANGED <<cache, API_KEY, rolling_window, status_text, all_prices,
                   price_data, warned, responses, slept, invoked,
                   seenBefore, firstCall, runs, rankVars, engineVars>>
\* lines 40-42: the GET of the ticker at idx is issued
Request ==
    /\ pc = "loop"
    /\ requested' = Append(requested, ApiTicker(Batch[idx]))
    /\ pc' = "inflight"
    /\ UNCHANGED <<cache, API_KEY, rolling_window, status_text, all_prices,
                   price_data, idx, warned, responses, slept, invoked,
                   seenBefore, firstCall, runs, rankVars, engineVars>>

\* fetch_all_data returns `result` to line 69: the cache stores it and the
\* main logic of lines 71-101 resolves the status element and, given a
\* table that is not empty, computes and shows the correlations
Return(result) ==
    /\ cache' = CacheStore(cache, API_KEY, result)
    /\ all_prices' = result
    /\ status_text' = MainStatus(result, API_KEY)
    /\ firstCall' = Note(firstCall, API_KEY, result)
    /\ pc' = "done"
    /\ Analysis(result, rolling_window)

\* lines 42-50, 54-58: the outcome of the GET is processed
Respond ==
    \E r \in Responses :
        /\ pc = "inflight"
        /\ responses' = Append(responses, r)
        /\ LET o == Outcome(r) IN
           CASE o = "store" ->
                  /\ price_data' = [t \in DOMAIN price_data \cup {Batch[idx]} |->
                                      IF t = Batch[idx] THEN Series(r.results)
                                      ELSE price_data[t]]
                  /\ pc' = "sleep"
                  /\ UNCHANGED <<warned, cache, all_prices, status_text, firstCall,
                                 rankVars, daily_returns>>
             [] o = "warn" ->
                  /\ warned' = warned \cup {Batch[idx]}
                  /\ pc' = "sleep"
                  /\ UNCHANGED <<price_data, cache, all_prices, status_text,
                                 firstCall, rankVars, daily_returns>>
             [] o = "none" ->
                  /\ Return(None)
                  /\ UNCHANGED <<price_data, warned>>
             [] o = "raise" ->
                  /\ pc' = "crashed"
                  /\ firstCall' = Note(firstCall, API_KEY, Raised)
                  /\ UNCHANGED <<price_data, warned, cache, all_prices, status_text,
                                 rankVars, daily_returns>>
        /\ UNCHANGED <<API_KEY, rolling_window, idx, requested, slept, invoked,
                       seenBefore, runs, fill_method>>

\* line 52, then line 37 (next ticker) or line 59 (return the table)
Sleep ==
    /\ pc = "sleep"
    /\ slept' = slept + SleepSeconds
    /\ IF idx < Len(Batch)
       THEN /\ idx' = idx + 1
            /\ pc' = "loop"
            /\ UNCHANGED <<cache, all_prices, status_text, firstCall,
                           rankVars, daily_returns>>
       ELSE /\ Return(DataFrame(price_data))
            /\ UNCHANGED idx
    /\ UNCHANGED <<API_KEY, rolling_window, price_data, warned, requested,
                   responses, invoked, seenBefore, runs, fill_method>>

Next ==
    \/ RunWithoutKey
    \/ RunCacheHit
    \/ RunCacheMiss
    \/ Request
    \/ Respond
    \/ Sleep

Spec == Init /\ [][Next]_vars

-----------------------------------------------------------------------------
(* Correlation matrices given to the ranker *)

\* What DataFrame.corr() of line 75 returns has a diagonal of One, is
\* symmetric, and has NaN in the whole row and column of a ticker whose
\* returns have no variance in the window (all tickers, when fewer than
\* two rows are left).  A matrix is built from the values of the unordered
\* pairs, at most one ticker whose returns duplicate another's (their
\* correlation is exactly One) and the set of tickers without variance.
\* The pair values are small enough for every such matrix to be positive
\* definite, so each is the correlation of some returns table.

PairsOf(n) == {p \in (1..n) \X (1..n) : p[1] < p[2]}
NoDup == <<0, 0>>

\* base: <<i, j>> -> value (i < j); dup: NoDup or <<i, j>>, ticker j
\* duplicating ticker i; Z: tickers without variance
BuildMatrix(n, base, dup, Z) ==
    LET rep(x) == IF x = dup[2] THEN dup[1] ELSE x
        val(r, c) ==
            IF r \in Z \/ c \in Z THEN NaN
            ELSE IF rep(r) = rep(c) THEN One
            ELSE LET i == IF rep(r) < rep(c) THEN rep(r) ELSE rep(c)
                     j == IF rep(r) < rep(c) THEN rep(c) ELSE rep(r)
                 IN base[<<i, j>>]
    IN [r \in 1..n |-> [c \in 1..n |-> val(r, c)]]

\* small matrices: every assignment of these values to the pairs
SmallValues == {-30, 0, 30}
SmallMatrices ==
    {BuildMatrix(RankTickers, base, dup, Z) :
        base \in [PairsOf(RankTickers) -> SmallValues],
        dup \in {NoDup} \cup PairsOf(RankTickers),
        Z \in SUBSET (1..RankTickers)}

\* matrices of all of TICKERS: the value of the k-th pair runs through m
\* values around 0.  Four tickers are without variance: the other six give
\* the 12 distinct values that fill both lists, and the orders of equal
\* values of one matrix stay few enough to go through all of them
PairIndex(p) == ((p[2] - 1) * (p[2] - 2)) \div 2 + p[1]
FullBase(m, a, b) ==
    [p \in PairsOf(Len(TICKERS)) |-> ((a * PairIndex(p) + b) % m) - (m \div 2)]
FullMatrices ==
    {BuildMatrix(Len(TICKERS), FullBase(23, 1, 0), <<2, 3>>, {1, 4, 9, 10}),
     BuildMatrix(Len(TICKERS), FullBase(11, 1, 0), NoDup, {7, 8, 9, 10})}

Matrices == SmallMatrices \cup FullMatrices

-----------------------------------------------------------------------------
(* SpecRank: the ranker applied to the matrices *)

InitRank ==
    /\ FetchIdle
    /\ EngineIdle
    /\ correlation_matrix \in Matrices
    /\ tie = NoTie
    /\ rpc = "matrix"
    /\ corr_pairs = <<>>
    /\ most = <<>>
    /\ least = <<>>

\* lines 89-90
RankPairs ==
    /\ rpc = "matrix"
    /\ \E t \in Ties(Unstack(correlation_matrix)) :
          /\ tie' = t
          /\ corr_pairs' = RankedPairs(correlation_matrix, t)
    /\ rpc' = "ranked"
    /\ UNCHANGED <<correlation_matrix, most, least, fetchVars, engineVars>>

\* lines 95, 98
ShowPairs ==
    /\ rpc = "ranked"
    /\ most' = HeadN(corr_pairs, TopN)
    /\ least' = TailN(corr_pairs, TopN)
    /\ rpc' = "shown"
    /\ UNCHANGED <<correlation_matrix, tie, corr_pairs, fetchVars, engineVars>>

NextRank == RankPairs \/ ShowPairs

SpecRank == InitRank /\ [][NextRank]_vars

-----------------------------------------------------------------------------
(* Price tables given to the engine *)

\* the tickers of the tables
EngineTickers == SubSeq(TICKERS, 1, 2)

\* what the API can return for one ticker: prices on some of the dates
SeriesOver(dates) ==
    UNION {[S -> Prices] : S \in (SUBSET dates) \ {{}}}

\* small tables: every pair of series over MaxDates calendar dates
SmallInputs ==
    [{EngineTickers[c] : c \in 1..Len(EngineTickers)} -> SeriesOver(1..MaxDates)]

\* long tables, for the window: both tickers have a price on each of L dates
LongSeries(L, a, sq) ==
    [d \in 1..L |-> 1 + (((IF sq THEN d * d ELSE d) \div a) % 2)]
LongInputs ==
    {[t \in {EngineTickers[1], EngineTickers[2]} |->
         IF t = EngineTickers[1] THEN LongSeries(L, a, FALSE)
         ELSE LongSeries(L, b, TRUE)] :
        L \in {30, 31, 32}, a \in {1, 2, 3}, b \in {2, 3, 5}}


-----------------------------------------------------------------------------
(* SpecCorr: the engine applied to the tables *)

\* line 73 is reached: a table that is not empty was returned
InitCorr ==
    /\ cache = EmptyDict
    /\ pc = "engine"
    /\ API_KEY = "k1"
    /\ status_text = "success"
    /\ \/ price_data \in SmallInputs /\ rolling_window = 90
       \/ price_data \in LongInputs /\ rolling_window \in Windows
    /\ all_prices = DataFrame(price_data)
    /\ idx = 1
    /\ warned = {}
    /\ requested = <<>>
    /\ responses = <<>>
    /\ slept = 0
    /\ invoked = TRUE
    /\ seenBefore = FALSE
    /\ firstCall = EmptyDict
    /\ runs = 1
    /\ fill_method \in FillMethods
    /\ daily_returns = <<>>
    /\ correlation_matrix = <<>>
    /\ tie = NoTie
    /\ rpc = "prices"
    /\ corr_pairs = <<>>
    /\ most = <<>>
    /\ least = <<>>

\* line 74
ComputeReturns ==
    /\ rpc = "prices"
    /\ daily_returns' = DailyReturns(all_prices, fill_method)
    /\ rpc' = "returns"
    /\ UNCHANGED <<correlation_matrix, tie, corr_pairs, most, least,
                   fill_method, fetchVars>>

\* line 75
ComputeCorrelation ==
    /\ rpc = "returns"
    /\ correlation_matrix' =
          CorrelationMatrix(daily_returns, rolling_window, Len(Columns(all_prices)))
    /\ rpc' = "matrix"
    /\ UNCHANGED <<daily_returns, tie, corr_pairs, most, least,
                   fill_method, fetchVars>>

NextCorr == ComputeReturns \/ ComputeCorrelation

SpecCorr == InitCorr /\ [][NextCorr]_vars

-----------------------------------------------------------------------------
(* Properties of the collector, the cache and the main logic (Spec) *)

\* the delay the rate limiter is specified to impose
ClaimedDelay == 13

\* a transport error: the connection failed or the status is not 2xx
TransportError(r) == r.kind \in {"ConnectionError", "HTTPError"}
\* a body that decodes and has the fields its resultsCount promises
WellFormed(r) ==
    r.kind = "json" /\ (r.resultsCount > 0 => r.results \in Payloads)
\* the tickers of the batch whose response satisfies P
Positions(P(_)) == {j \in 1..Len(responses) : P(responses[j])}
IsTransportError(r) == TransportError(r)
IsWellFormed(r) == WellFormed(r)
IsFailure(r) == ~WellFormed(r)
HasRecords(r) == WellFormed(r) /\ r.resultsCount > 0
HasNoRecords(r) == WellFormed(r) /\ r.resultsCount = 0
TickersAt(S) == {Batch[j] : j \in S}

\* C1: when the fetch of a ticker fails with a transport error the collector
\* aborts at once: that response is the last of the batch, no GET is issued
\* for a later ticker, and the collector has returned None, not a table of
\* the series fetched before.
C1_AbortOnTransportError ==
    \A j \in Positions(IsTransportError) :
        /\ j = Len(responses)
        /\ Len(requested) = j
        /\ pc = "done"
        /\ all_prices = None
\* a transport error on the second ticker, after a stored series
C1_Witness ==
    /\ Len(responses) = 2
    /\ Len(Batch) > 2
    /\ HasRecords(responses[1])
    /\ TransportError(responses[2])
    /\ DOMAIN price_data # {}
    /\ pc = "done"

\* C2 as stated: whenever control has left a fetcher call (for the next
\* ticker, or out of the collector), a delay of 13 has elapsed for every call
\* made so far, failed calls included.
C2_DelayAfterEveryCall ==
    (pc = "loop" \/ RunEnded) => slept = ClaimedDelay * Len(responses)
\* C2 amended: a delay of 13 has elapsed for every call that succeeded or
\* returned an empty result, the last call of the batch included, before
\* control goes on to the next ticker or returns; a call that fails is
\* followed by no delay.
C2_DelayAfterEveryCompletedCall ==
    /\ (pc = "loop" \/ RunEnded) =>
          slept = ClaimedDelay * Cardinality(Positions(IsWellFormed))
    /\ pc = "sleep" =>
          /\ WellFormed(responses[Len(responses)])
          /\ slept = ClaimedDelay * (Len(responses) - 1)
\* a whole batch, its last call included, with an empty result in it
C2_Witness ==
    /\ pc = "done"
    /\ Len(responses) = Len(Batch)
    /\ Positions(IsWellFormed) = 1..Len(Batch)
    /\ Positions(HasNoRecords) # {}
    /\ slept = ClaimedDelay * Len(Batch)

\* C3: a call of the collector through the cache with a (tickers, key) that
\* an earlier run already called it with issues no GET and returns what the
\* first call returned.
C3_SecondCallFromCache ==
    seenBefore =>
        /\ requested = <<>>
        /\ RunEnded => all_prices = firstCall[API_KEY]

\* C4: after a batch in which a fetch failed with a transport error the
\* cache holds None for that key, not a table, and every later call with
\* the key returns None without issuing a GET.
C4_FailureMemoized ==
    /\ Positions(IsTransportError) # {} =>
          API_KEY \in DOMAIN cache /\ cache[API_KEY] = None
    /\ \A k \in DOMAIN firstCall :
          firstCall[k] = None => k \in DOMAIN cache /\ cache[k] = None
    /\ (seenBefore /\ firstCall[API_KEY] = None) =>
          /\ requested = <<>>
          /\ pc = "done"
          /\ all_prices = None
\* the third call with a key whose first batch failed
C4_Witness ==
    /\ runs = 3
    /\ seenBefore
    /\ firstCall[API_KEY] = None
    /\ pc = "done"
    /\ all_prices = None

\* C5: every failure of a fetch (no connection, a non-2xx status, a body
\* that is not JSON or lacks the fields its resultsCount promises) ends the
\* collector with None; no exception leaves fetch_all_data.
C5_NoExceptionEscapes ==
    Positions(IsFailure) # {} => (pc = "done" /\ all_prices = None)

\* C6: in a batch where no fetch fails, every ticker is requested, a ticker
\* with zero records is warned about and left out of the table, and the
\* table's tickers are exactly those with a positive record count.
C6_EmptyTickerOmitted ==
    /\ (Positions(IsWellFormed) = 1..Len(responses) /\ pc \in {"loop", "sleep"}) =>
          /\ warned = TickersAt(Positions(HasNoRecords))
          /\ DOMAIN price_data = TickersAt(Positions(HasRecords))
    /\ (Positions(IsWellFormed) = 1..Len(responses) /\ responses # <<>>
            /\ RunEnded) =>
          /\ pc = "done"
          /\ Len(responses) = Len(Batch)
          /\ Len(requested) = Len(Batch)
          /\ warned = TickersAt(Positions(HasNoRecords))
          /\ all_prices = DataFrame(price_data)
          /\ DOMAIN all_prices.columns = TickersAt(Positions(HasRecords))
\* an empty result before the end of the batch, a series after it
C6_Witness ==
    /\ pc = "done"
    /\ Len(responses) = Len(Batch)
    /\ HasNoRecords(responses[1])
    /\ HasRecords(responses[Len(Batch)])
    /\ all_prices = DataFrame(price_data)
    /\ Batch[1] \notin DOMAIN all_prices.columns

\* C7: a run without a credential issues no GET, does not call the cached
\* collector, and ends showing the guidance warning, not the error or the
\* success message.
C7_NoCredentialNoFetch ==
    (pc # "ready" /\ API_KEY = "") =>
        /\ pc = "done"
        /\ ~invoked
        /\ requested = <<>>
        /\ status_text = "guidance"
\* a run without a credential after a run that fetched
C7_Witness ==
    /\ pc = "done"
    /\ API_KEY = ""
    /\ status_text = "guidance"
    /\ DOMAIN cache # {}

-----------------------------------------------------------------------------
(* Properties of the pair ranker (SpecRank) *)

PairOf(e) == {e.a, e.b}
PairsIn(s) == {PairOf(s[k]) : k \in 1..Len(s)}
OffDiagonalValues(M) ==
    {M[p[1]][p[2]] : p \in PairsOf(Size(M))}

\* C8: the ranked sequence, and the 'most' and 'least' lists cut from it,
\* never hold a pair whose two tickers are the same, whatever the matrix
\* (NaN entries of tickers without variance included).
C8_NoSelfPair ==
    /\ \A k \in 1..Len(corr_pairs) : corr_pairs[k].a # corr_pairs[k].b
    /\ \A k \in 1..Len(most) : most[k].a # most[k].b
    /\ \A k \in 1..Len(least) : least[k].a # least[k].b

\* C9: the ranked sequence holds every unordered pair of distinct tickers
\* exactly once (also when two pairs have the same value or a pair has the
\* value 1.0), and no pair in both orders.
C9_EachPairOnce ==
    rpc # "matrix" =>
        \A p \in PairsOf(Size(correlation_matrix)) :
            Cardinality({k \in 1..Len(corr_pairs) :
                            PairOf(corr_pairs[k]) = {p[1], p[2]}}) = 1

\* C10: for a matrix of 10 tickers with at least 12 distinct off-diagonal
\* values, 'most' and 'least' have 5 entries each and share no pair; 'most'
\* is the first 5 and 'least' the last 5 entries of the one ranked sequence,
\* whose values descend (an entry without a value, NaN, comes last).
C10_TopAndBottomFive ==
    (/\ rpc = "shown"
     /\ Size(correlation_matrix) = 10
     /\ Cardinality(OffDiagonalValues(correlation_matrix)) >= 12) =>
        /\ Len(most) = 5
        /\ Len(least) = 5
        /\ PairsIn(most) \cap PairsIn(least) = {}
        /\ Cardinality(PairsIn(most)) = 5
        /\ Cardinality(PairsIn(least)) = 5
        /\ most = SubSeq(corr_pairs, 1, 5)
        /\ least = SubSeq(corr_pairs, Len(corr_pairs) - 4, Len(corr_pairs))
        /\ \A k \in 1..(Len(corr_pairs) - 1) :
              \/ corr_pairs[k + 1].v = NaN
              \/ /\ corr_pairs[k].v # NaN
                 /\ corr_pairs[k].v > corr_pairs[k + 1].v
        /\ \A k \in 1..Len(corr_pairs) :
              corr_pairs[k].v =
                 correlation_matrix[corr_pairs[k].b][corr_pairs[k].a]
\* exactly 12 distinct values, 1.0 and NaN among them: 11 ranked entries
C10_Witness ==
    /\ rpc = "shown"
    /\ Size(correlation_matrix) = 10
    /\ Cardinality(OffDiagonalValues(correlation_matrix)) = 12
    /\ One \in OffDiagonalValues(correlation_matrix)
    /\ NaN \in OffDiagonalValues(correlation_matrix)
    /\ Len(corr_pairs) = 11
    /\ Len(most) = 5
    /\ Len(least) = 5

-----------------------------------------------------------------------------
(* Properties of the return and correlation engine (SpecCorr) *)

Min(a, b) == IF a < b THEN a ELSE b

\* the tickers of the price table
TableTickers == DOMAIN price_data

\* ticker t has a price on date d
Priced(t, d) == d \in DOMAIN price_data[t]

\* the date of the table row before the row of date d, 0 for the first row
PrecedingDate(d) ==
    LET dates == DateIndex(all_prices)
        i == CHOOSE k \in 1..Len(dates) : dates[k] = d
    IN IF i = 1 THEN 0 ELSE dates[i - 1]

\* the rows of the returns table the window covers: the last min(N, R)
WindowRows ==
    LET R == Len(daily_returns)
        m == Min(rolling_window, R)
    IN [k \in 1..m |-> daily_returns[R - m + k]]

\* every return of column c in the window is the same
Constant(c) ==
    \A j, k \in 1..Len(WindowRows) : WindowRows[j].v[c] = WindowRows[k].v[c]

\* C11: a date is a row of the returns table only if every ticker has a
\* price on that date and on the date of the preceding row of the price table
C11_ReturnRowsFullyPriced ==
    rpc # "prices" =>
        \A k \in 1..Len(daily_returns) :
            LET d == daily_returns[k].date IN
            /\ PrecedingDate(d) # 0
            /\ \A t \in TableTickers :
                  Priced(t, d) /\ Priced(t, PrecedingDate(d))

\* C12: the correlation matrix is the correlation of exactly the last
\* min(N, R) rows of the returns table, whatever R and N are
C12_LastMinRows ==
    rpc = "matrix" =>
        correlation_matrix = Corr(WindowRows, Cardinality(TableTickers))
\* more rows than the window, and the older row would have changed the matrix
C12_Witness ==
    /\ rpc = "matrix"
    /\ Len(daily_returns) > rolling_window
    /\ Len(WindowRows) = rolling_window
    /\ correlation_matrix # Corr(daily_returns, Cardinality(TableTickers))

\* C13 as stated: with at least 2 return rows in the window every diagonal
\* entry is exactly 1.0
C13_DiagonalOneWithTwoRows ==
    (rpc = "matrix" /\ Len(WindowRows) >= 2) =>
        \A c \in 1..Len(correlation_matrix) : correlation_matrix[c][c] = One
\* C13: with at least 2 return rows in the window, the diagonal entry of a
\* ticker whose returns in the window are not all equal is exactly 1.0
C13_DiagonalOneWithVariance ==
    (rpc = "matrix" /\ Len(WindowRows) >= 2) =>
        \A c \in 1..Len(correlation_matrix) :
            ~Constant(c) => correlation_matrix[c][c] = One
\* three rows, both tickers vary, and they are not perfectly correlated
C13_Witness ==
    /\ rpc = "matrix"
    /\ Len(WindowRows) >= 3
    /\ \A c \in 1..Len(correlation_matrix) :
          ~Constant(c) /\ correlation_matrix[c][c] = One
    /\ correlation_matrix[1][2] \notin {One, 0 - One, NaN}

\* C14: the matrix has one row and one column per ticker of the price table,
\* and with fewer than 2 rows in the window, or for a ticker whose returns
\* in the window have no variance, the entry is not-a-number
C14_UndefinedIsNaN ==
    rpc = "matrix" =>
        /\ Len(correlation_matrix) = Cardinality(TableTickers)
        /\ \A r \in 1..Len(correlation_matrix) :
              /\ Len(correlation_matrix[r]) = Cardinality(TableTickers)
              /\ \A c \in 1..Len(correlation_matrix[r]) :
                    (Len(WindowRows) < 2 \/ Constant(r) \/ Constant(c)) =>
                        correlation_matrix[r][c] = NaN
\* two rows or more, one ticker without variance and one with
C14_Witness ==
    /\ rpc = "matrix"
    /\ Len(WindowRows) >= 2
    /\ Len(correlation_matrix) = 2
    /\ Constant(1)
    /\ ~Constant(2)
    /\ correlation_matrix[1][1] = NaN
    /\ correlation_matrix[1][2] = NaN
    /\ correlation_matrix[2][2] = One
\* no return row is left at all, and the matrix keeps its shape
C14_WitnessNoRows ==
    /\ rpc = "matrix"
    /\ Len(WindowRows) = 0
    /\ Len(correlation_matrix) = 2
    /\ \A r, c \in 1..2 : correlation_matrix[r][c] = NaN

-----------------------------------------------------------------------------
(* Order, termination and the status element (Spec) *)

\* the value is a price table
IsTable(x) == x.tag = "DataFrame"

\* C15: the GETs of a batch follow the ticker order, one per ticker at most;
\* at most one is without its response, and the GET of a ticker is issued
\* only when every earlier response was processed and a full delay of 13 has
\* elapsed for each of them
C15_StrictlySerial ==
    /\ Len(requested) <= Len(Batch)
    /\ \A j \in 1..Len(requested) : requested[j] = ApiTicker(Batch[j])
    /\ \A j, k \in 1..Len(requested) : requested[j] = requested[k] => j = k
    /\ Len(requested) - Len(responses) = (IF pc = "inflight" THEN 1 ELSE 0)
    /\ pc = "inflight" =>
          /\ \A j \in 1..Len(responses) : WellFormed(responses[j])
          /\ slept = ClaimedDelay * Len(responses)
\* the GET of the last ticker is in flight, two delays after the first
C15_Witness ==
    /\ pc = "inflight"
    /\ Len(Batch) >= 3
    /\ Len(requested) = Len(Batch)
    /\ Len(responses) = Len(Batch) - 1
    /\ slept = ClaimedDelay * (Len(Batch) - 1)

\* C16: a run that entered the collector and ended has ended with a price
\* table or with None, after one GET per ticker at most
C16_TableOrNone ==
    (invoked /\ RunEnded) =>
        /\ pc = "done"
        /\ all_prices = None \/ IsTable(all_prices)
        /\ Len(requested) <= Len(Batch)

\* C17: a run with a credential in which the collector returned shows the
\* success message for a table and the error message for None, never the
\* fetching message
C17_StatusResolved ==
    (pc = "done" /\ Truthy(API_KEY)) =>
        status_text = (IF all_prices = None THEN "error" ELSE "success")

=============================================================================
